---- MODULE Spec2Model ----
(***************************************************************************)
(* A model of the homotopy combinator library (src/src/lib.rs,             *)
(* src/src/sides.rs, src/src/compose.rs).                                  *)
(*                                                                         *)
(* The library is pure: a homotopy is a value with three functions f, g    *)
(* and h.  The model represents a homotopy as a term (a tuple whose first  *)
(* element names the Rust type) and evaluates f, g and h by the code of    *)
(* the matching impl block.  The state machine holds one constructed       *)
(* homotopy, one input, and the result of the last call made on it.        *)
(*                                                                         *)
(* f64 is modelled as a binary floating point format with Prec significant *)
(* bits, round-to-nearest-even, gradual underflow, overflow to infinity,   *)
(* signed zeros and NaN.  A finite value v is held as the integer          *)
(* v * 2^Frac; the infinities, NaN and -0.0 are integers outside the       *)
(* finite range.                                                           *)
(***************************************************************************)
EXTENDS Integers, Sequences, FiniteSets, TLC

VARIABLES hm, x, s, op, y, ok

vars == <<hm, x, s, op, y, ok>>

----------------------------------------------------------------------------
(* f64 arithmetic *)

\* significant bits of the modelled format (53 in f64)
Prec == 5

\* the grid: every finite value is a multiple of 2^-Frac
Frac == Prec + 1

\* the largest finite value is (2^Prec - 1) * 2^(Kmax - Frac)
Kmax == Frac + 2

MaxN == (2^Prec - 1) * 2^Kmax

PInf == MaxN + 1

NInf == 0 - (MaxN + 1)

NaN == MaxN + 2

\* -0.0: the zero with the sign bit set
NegZero == 0 - (MaxN + 2)

IsFinite(a) == a = NegZero \/ (a >= 0 - MaxN /\ a <= MaxN)

\* the sign bit of a value other than NaN
IsNeg(a) == a < 0

\* the number a finite value stands for, in grid units
Val(a) == IF a = NegZero THEN 0 ELSE a

RECURSIVE BitLen(_)
BitLen(A) == IF A = 0 THEN 0 ELSE 1 + BitLen(A \div 2)

\* The magnitude A / 2^(Frac + sh), rounded to Prec significant bits on the
\* grid, ties to even; in grid units.
RoundMag(A, sh) ==
    LET j  == IF BitLen(A) - Prec > sh THEN BitLen(A) - Prec ELSE sh
        q  == 2^j
        m  == A \div q
        r  == A % q
        up == 2 * r > q \/ (2 * r = q /\ m % 2 = 1)
    IN  (IF up THEN m + 1 ELSE m) * 2^(j - sh)

\* The exact value N / 2^(Frac + sh), with sign bit neg, as an f64: rounded,
\* infinite on overflow, a signed zero on underflow.
Round(N, sh, neg) ==
    LET mag == RoundMag(IF N < 0 THEN 0 - N ELSE N, sh)
    IN  IF mag > MaxN THEN (IF neg THEN NInf ELSE PInf)
        ELSE IF mag = 0 THEN (IF neg THEN NegZero ELSE 0)
        ELSE IF neg THEN 0 - mag ELSE mag

f64_neg(a) ==
    IF a = NaN THEN NaN
    ELSE IF a = 0 THEN NegZero
    ELSE IF a = NegZero THEN 0
    ELSE 0 - a

\* an exact zero sum is -0.0 only when both operands are -0.0
f64_add(a, b) ==
    IF a = NaN \/ b = NaN THEN NaN
    ELSE IF ~IsFinite(a) THEN (IF ~IsFinite(b) /\ b # a THEN NaN ELSE a)
    ELSE IF ~IsFinite(b) THEN b
    ELSE IF Val(a) + Val(b) = 0 THEN (IF a = NegZero /\ b = NegZero THEN NegZero ELSE 0)
    ELSE Round(Val(a) + Val(b), 0, Val(a) + Val(b) < 0)

f64_sub(a, b) == f64_add(a, f64_neg(b))

f64_mul(a, b) ==
    IF a = NaN \/ b = NaN THEN NaN
    ELSE IF ~IsFinite(a) \/ ~IsFinite(b)
         THEN (IF Val(a) = 0 \/ Val(b) = 0 THEN NaN
               ELSE IF IsNeg(a) = IsNeg(b) THEN PInf ELSE NInf)
    ELSE Round(Val(a) * Val(b), Frac, IsNeg(a) # IsNeg(b))

\* PartialEq for f64: NaN equals nothing, itself included; -0.0 equals 0.0.
f64_eq(a, b) == a # NaN /\ b # NaN /\ Val(a) = Val(b)

\* the literal k as f64 (k an integer the format holds exactly)
Lit(k) == k * 2^Frac

\* the literal 0.5
Half == 2^(Frac - 1)

Zero == 0

One == Lit(1)

----------------------------------------------------------------------------
(* Values.  An f64 v is the 1-tuple <<v>>, () is <<>>, a Rust tuple is the *)
(* tuple of its components.  A scalar parameter is a bare f64, an array    *)
(* parameter [f64; N] a tuple of N of them.                                *)

\* PartialEq on output values: f64, (), and tuples componentwise
RECURSIVE PEq(_, _)
PEq(a, b) ==
    IF Len(a) = 1 THEN f64_eq(a[1], b[1])
    ELSE \A i \in 1..Len(a) : PEq(a[i], b[i])

\* Mul<f64> and Add on the output type of Lerp and the Bezier curves (f64)
Y_mul(a, k) == <<f64_mul(a[1], k)>>

Y_add(a, b) == <<f64_add(a[1], b[1])>>

\* closures handed to DiracFrom::new: |_| 1.0, |_| 0.0, |x| x - 2.0, |x| x + 2.0
\* (the tests), and |x| x.signum()
Apply(fn, v) ==
    CASE fn = "one"  -> <<One>>
      [] fn = "zero" -> <<Zero>>
      [] fn = "sub2" -> <<f64_sub(v[1], Lit(2))>>
      [] fn = "add2" -> <<f64_add(v[1], Lit(2))>>
      [] fn = "signum" ->
            <<IF v[1] = NaN THEN NaN ELSE IF IsNeg(v[1]) THEN f64_neg(One) ELSE One>>

----------------------------------------------------------------------------
(* The Homotopy trait: f, g and h of a term, by its impl.                  *)

RECURSIVE Call(_, _, _), Arity(_)

\* h.f(v), h.g(v) and h.h(v, k) on a homotopy t of any type
F(t, v) == Call(t, v, <<"f">>)

G(t, v) == Call(t, v, <<"g">>)

H(t, v, k) == Call(t, v, <<"h", k>>)

\* One definition per impl block; m is the method called: <<"f">>, <<"g">> or
\* <<"h", s>>.
Id_impl(t, v, m) ==
    CASE m[1] = "f" -> v
      [] m[1] = "g" -> v
      [] m[1] = "h" -> v

\* a slip: the step taken at the bit pattern of 0.0 only, so that -0.0 is "elsewhere"
Dirac_impl_positive_zero(t, v, m) ==
    CASE m[1] = "f" -> <<One>>
      [] m[1] = "g" -> <<Zero>>
      [] m[1] = "h" -> IF m[2] = Zero THEN <<One>> ELSE <<Zero>>

Dirac_impl(t, v, m) ==
    CASE m[1] = "f" -> <<One>>
      [] m[1] = "g" -> <<Zero>>
      [] m[1] = "h" -> IF f64_eq(m[2], Zero) THEN <<One>> ELSE <<Zero>>

DiracFrom_new(ff, gg) == <<"DiracFrom", ff, gg>>

DiracFrom_impl(t, v, m) ==
    CASE m[1] = "f" -> Apply(t[2], v)
      [] m[1] = "g" -> Apply(t[3], v)
      [] m[1] = "h" -> IF f64_eq(m[2], Zero) THEN Apply(t[2], v) ELSE Apply(t[3], v)

Lerp(a, b) == <<"Lerp", a, b>>

\* a slip: the weights of the two endpoints exchanged
Lerp_impl_swapped(t, v, m) ==
    CASE m[1] = "f" -> t[2]
      [] m[1] = "g" -> t[3]
      [] m[1] = "h" -> Y_add(Y_mul(t[2], m[2]), Y_mul(t[3], f64_sub(One, m[2])))

Lerp_impl(t, v, m) ==
    CASE m[1] = "f" -> t[2]
      [] m[1] = "g" -> t[3]
      [] m[1] = "h" -> Y_add(Y_mul(t[2], f64_sub(One, m[2])), Y_mul(t[3], m[2]))

QuadraticBezier(a, b, c) == <<"QuadraticBezier", a, b, c>>

\* a slip: the start point taken as the control point
QuadraticBezier_from_linear_start(a, b) == QuadraticBezier(a, a, b)

QuadraticBezier_from_linear(a, b) ==
    QuadraticBezier(a, Y_add(Y_mul(a, Half), Y_mul(b, Half)), b)

QuadraticBezier_impl(t, v, m) ==
    CASE m[1] = "f" -> t[2]
      [] m[1] = "g" -> t[4]
      [] m[1] = "h" ->
            LET a == H(Lerp(t[2], t[3]), <<>>, m[2])
                b == H(Lerp(t[3], t[4]), <<>>, m[2])
            IN  H(Lerp(a, b), <<>>, m[2])

CubicBezier(a, b, c, d) == <<"CubicBezier", a, b, c, d>>

\* a slip: the start point duplicated in place of the control point
CubicBezier_from_quadratic_start(a, b, c) == CubicBezier(a, a, b, c)

CubicBezier_from_quadratic(a, b, c) == CubicBezier(a, b, b, c)

\* the standard cubic: three Lerps, then a QuadraticBezier of their values
CubicBezier_impl_de_casteljau(t, v, m) ==
    CASE m[1] = "f" -> t[2]
      [] m[1] = "g" -> t[5]
      [] m[1] = "h" ->
            LET a == H(Lerp(t[2], t[3]), <<>>, m[2])
                b == H(Lerp(t[3], t[4]), <<>>, m[2])
                c == H(Lerp(t[4], t[5]), <<>>, m[2])
            IN  H(QuadraticBezier(a, b, c), <<>>, m[2])

CubicBezier_impl(t, v, m) ==
    CASE m[1] = "f" -> t[2]
      [] m[1] = "g" -> t[5]
      [] m[1] = "h" ->
            LET a == H(Lerp(t[2], t[3]), <<>>, m[2])
                b == H(Lerp(t[4], t[5]), <<>>, m[2])
            IN  H(Lerp(a, b), <<>>, m[2])

\* lib.rs Compose<X, H1, H2>: both operands scalar-parameter
Compose_new(h1, h2) == <<"Compose", h1, h2>>

\* a slip: the left operand always sampled at its start
Compose_impl_h1_at_start(t, v, m) ==
    CASE m[1] = "f" -> F(t[3], F(t[2], v))
      [] m[1] = "g" -> G(t[3], G(t[2], v))
      [] m[1] = "h" -> H(t[3], H(t[2], v, Zero), m[2])

Compose_impl(t, v, m) ==
    CASE m[1] = "f" -> F(t[3], F(t[2], v))
      [] m[1] = "g" -> G(t[3], G(t[2], v))
      [] m[1] = "h" -> H(t[3], H(t[2], v, m[2]), m[2])

Square_new(h1, h2) == <<"Square", h1, h2>>

\* a slip: the first parameter coordinate handed to both axes
Square_impl_one_axis(t, v, m) ==
    CASE m[1] = "f" -> <<F(t[2], v[1]), F(t[3], v[2])>>
      [] m[1] = "g" -> <<G(t[2], v[1]), G(t[3], v[2])>>
      [] m[1] = "h" -> <<H(t[2], v[1], m[2][1]), H(t[3], v[2], m[2][1])>>

Square_impl(t, v, m) ==
    CASE m[1] = "f" -> <<F(t[2], v[1]), F(t[3], v[2])>>
      [] m[1] = "g" -> <<G(t[2], v[1]), G(t[3], v[2])>>
      [] m[1] = "h" -> <<H(t[2], v[1], m[2][1]), H(t[3], v[2], m[2][2])>>

Cube_new(h1, h2, h3) == <<"Cube", h1, h2, h3>>

Cube_impl(t, v, m) ==
    CASE m[1] = "f" -> <<F(t[2], v[1]), F(t[3], v[2]), F(t[4], v[3])>>
      [] m[1] = "g" -> <<G(t[2], v[1]), G(t[3], v[2]), G(t[4], v[3])>>
      [] m[1] = "h" ->
            <<H(t[2], v[1], m[2][1]), H(t[3], v[2], m[2][2]), H(t[4], v[3], m[2][3])>>

Inverse(h) == <<"Inverse", h>>

\* a slip: the parameter not reversed
Inverse_impl_forward(t, v, m) ==
    CASE m[1] = "f" -> G(t[2], v)
      [] m[1] = "g" -> F(t[2], v)
      [] m[1] = "h" -> H(t[2], v, m[2])

\* a slip: g not exchanged
Inverse_impl_g_kept(t, v, m) ==
    CASE m[1] = "f" -> G(t[2], v)
      [] m[1] = "g" -> G(t[2], v)
      [] m[1] = "h" -> H(t[2], v, f64_sub(One, m[2]))

Inverse_impl(t, v, m) ==
    CASE m[1] = "f" -> G(t[2], v)
      [] m[1] = "g" -> F(t[2], v)
      [] m[1] = "h" -> H(t[2], v, f64_sub(One, m[2]))

----------------------------------------------------------------------------
(* sides.rs: the diagonal, the faces and the cross-sections.  One          *)
(* definition per impl block: the digit is the parameter arity of the      *)
(* wrapped homotopy t[2], and m is the method called: <<"f">>, <<"g">> or    *)
(* <<"h", s>>.                                                              *)

Diagonal_new(h) == <<"Diagonal", h>>

\* a slip: only the first coordinate follows the scalar
Diagonal2_first_axis(t, v, m) ==
    CASE m[1] = "f" -> F(t[2], v)
      [] m[1] = "g" -> G(t[2], v)
      [] m[1] = "h" -> H(t[2], v, <<m[2], Zero>>)

Diagonal2(t, v, m) ==
    CASE m[1] = "f" -> F(t[2], v)
      [] m[1] = "g" -> G(t[2], v)
      [] m[1] = "h" -> H(t[2], v, <<m[2], m[2]>>)

Diagonal3(t, v, m) ==
    CASE m[1] = "f" -> F(t[2], v)
      [] m[1] = "g" -> G(t[2], v)
      [] m[1] = "h" -> H(t[2], v, <<m[2], m[2], m[2]>>)

Diagonal4(t, v, m) ==
    CASE m[1] = "f" -> F(t[2], v)
      [] m[1] = "g" -> G(t[2], v)
      [] m[1] = "h" -> H(t[2], v, <<m[2], m[2], m[2], m[2]>>)

Left(h) == <<"Left", h>>

Left2(t, v, m) ==
    CASE m[1] = "f" -> F(t[2], v)
      [] m[1] = "g" -> H(t[2], v, <<Zero, One>>)
      [] m[1] = "h" -> H(t[2], v, <<Zero, m[2]>>)

\* a variant: f read from the parent's h at the origin, not forwarded
Left3_origin_corner(t, v, m) ==
    CASE m[1] = "f" -> H(t[2], v, <<Zero, Zero, Zero>>)
      [] m[1] = "g" -> H(t[2], v, <<Zero, One, One>>)
      [] m[1] = "h" -> H(t[2], v, <<Zero, m[2][1], m[2][2]>>)

Left3(t, v, m) ==
    CASE m[1] = "f" -> F(t[2], v)
      [] m[1] = "g" -> H(t[2], v, <<Zero, One, One>>)
      [] m[1] = "h" -> H(t[2], v, <<Zero, m[2][1], m[2][2]>>)

Left4(t, v, m) ==
    CASE m[1] = "f" -> F(t[2], v)
      [] m[1] = "g" -> H(t[2], v, <<Zero, One, One, One>>)
      [] m[1] = "h" -> H(t[2], v, <<Zero, m[2][1], m[2][2], m[2][3]>>)

Right(h) == <<"Right", h>>

Right2(t, v, m) ==
    CASE m[1] = "f" -> H(t[2], v, <<One, Zero>>)
      [] m[1] = "g" -> G(t[2], v)
      [] m[1] = "h" -> H(t[2], v, <<One, m[2]>>)

\* a slip: g taken on the front side, at [1, 1, 0]
Right3_front_corner(t, v, m) ==
    CASE m[1] = "f" -> H(t[2], v, <<One, Zero, Zero>>)
      [] m[1] = "g" -> H(t[2], v, <<One, One, Zero>>)
      [] m[1] = "h" -> H(t[2], v, <<One, m[2][1], m[2][2]>>)

Right3(t, v, m) ==
    CASE m[1] = "f" -> H(t[2], v, <<One, Zero, Zero>>)
      [] m[1] = "g" -> G(t[2], v)
      [] m[1] = "h" -> H(t[2], v, <<One, m[2][1], m[2][2]>>)

Right4(t, v, m) ==
    CASE m[1] = "f" -> H(t[2], v, <<One, Zero, Zero, Zero>>)
      [] m[1] = "g" -> G(t[2], v)
      [] m[1] = "h" -> H(t[2], v, <<One, m[2][1], m[2][2], m[2][3]>>)

Top(h) == <<"Top", h>>

\* a slip: g taken at the all-1 corner, which lies on the bottom side
Top2_far_corner(t, v, m) ==
    CASE m[1] = "f" -> F(t[2], v)
      [] m[1] = "g" -> H(t[2], v, <<One, One>>)
      [] m[1] = "h" -> H(t[2], v, <<m[2], Zero>>)

Top2(t, v, m) ==
    CASE m[1] = "f" -> F(t[2], v)
      [] m[1] = "g" -> H(t[2], v, <<One, Zero>>)
      [] m[1] = "h" -> H(t[2], v, <<m[2], Zero>>)

\* a slip: the last coordinate fixed, as on a 2-parameter parent
Top3_last_axis(t, v, m) ==
    CASE m[1] = "f" -> F(t[2], v)
      [] m[1] = "g" -> H(t[2], v, <<One, One, Zero>>)
      [] m[1] = "h" -> H(t[2], v, <<m[2][1], m[2][2], Zero>>)

Top3(t, v, m) ==
    CASE m[1] = "f" -> F(t[2], v)
      [] m[1] = "g" -> H(t[2], v, <<One, Zero, One>>)
      [] m[1] = "h" -> H(t[2], v, <<m[2][1], Zero, m[2][2]>>)

Top4(t, v, m) ==
    CASE m[1] = "f" -> F(t[2], v)
      [] m[1] = "g" -> H(t[2], v, <<One, Zero, One, One>>)
      [] m[1] = "h" -> H(t[2], v, <<m[2][1], Zero, m[2][2], m[2][3]>>)

Bottom(h) == <<"Bottom", h>>

\* a slip: the f corner of Top copied into Bottom
Bottom2_top_corner(t, v, m) ==
    CASE m[1] = "f" -> H(t[2], v, <<One, Zero>>)
      [] m[1] = "g" -> G(t[2], v)
      [] m[1] = "h" -> H(t[2], v, <<m[2], One>>)

Bottom2(t, v, m) ==
    CASE m[1] = "f" -> H(t[2], v, <<Zero, One>>)
      [] m[1] = "g" -> G(t[2], v)
      [] m[1] = "h" -> H(t[2], v, <<m[2], One>>)

Bottom3(t, v, m) ==
    CASE m[1] = "f" -> H(t[2], v, <<Zero, One, Zero>>)
      [] m[1] = "g" -> G(t[2], v)
      [] m[1] = "h" -> H(t[2], v, <<m[2][1], One, m[2][2]>>)

Bottom4(t, v, m) ==
    CASE m[1] = "f" -> H(t[2], v, <<Zero, One, Zero, Zero>>)
      [] m[1] = "g" -> G(t[2], v)
      [] m[1] = "h" -> H(t[2], v, <<m[2][1], One, m[2][2], m[2][3]>>)

Front(h) == <<"Front", h>>

Front3(t, v, m) ==
    CASE m[1] = "f" -> F(t[2], v)
      [] m[1] = "g" -> H(t[2], v, <<One, One, Zero>>)
      [] m[1] = "h" -> H(t[2], v, <<m[2][1], m[2][2], Zero>>)

Front4(t, v, m) ==
    CASE m[1] = "f" -> F(t[2], v)
      [] m[1] = "g" -> H(t[2], v, <<One, One, Zero, One>>)
      [] m[1] = "h" -> H(t[2], v, <<m[2][1], m[2][2], Zero, m[2][3]>>)

Back(h) == <<"Back", h>>

Back3(t, v, m) ==
    CASE m[1] = "f" -> H(t[2], v, <<Zero, Zero, One>>)
      [] m[1] = "g" -> G(t[2], v)
      [] m[1] = "h" -> H(t[2], v, <<m[2][1], m[2][2], One>>)

Back4(t, v, m) ==
    CASE m[1] = "f" -> H(t[2], v, <<Zero, Zero, One, Zero>>)
      [] m[1] = "g" -> G(t[2], v)
      [] m[1] = "h" -> H(t[2], v, <<m[2][1], m[2][2], One, m[2][3]>>)

Past(h) == <<"Past", h>>

\* a slip: the g corner of Front copied into Past
Past4_front_corner(t, v, m) ==
    CASE m[1] = "f" -> F(t[2], v)
      [] m[1] = "g" -> H(t[2], v, <<One, One, Zero, One>>)
      [] m[1] = "h" -> H(t[2], v, <<m[2][1], m[2][2], m[2][3], Zero>>)

Past4(t, v, m) ==
    CASE m[1] = "f" -> F(t[2], v)
      [] m[1] = "g" -> H(t[2], v, <<One, One, One, Zero>>)
      [] m[1] = "h" -> H(t[2], v, <<m[2][1], m[2][2], m[2][3], Zero>>)

Future(h) == <<"Future", h>>

\* a slip: f taken at the origin, which lies on the past side
Future4_origin(t, v, m) ==
    CASE m[1] = "f" -> H(t[2], v, <<Zero, Zero, Zero, Zero>>)
      [] m[1] = "g" -> G(t[2], v)
      [] m[1] = "h" -> H(t[2], v, <<m[2][1], m[2][2], m[2][3], One>>)

Future4(t, v, m) ==
    CASE m[1] = "f" -> H(t[2], v, <<Zero, Zero, Zero, One>>)
      [] m[1] = "g" -> G(t[2], v)
      [] m[1] = "h" -> H(t[2], v, <<m[2][1], m[2][2], m[2][3], One>>)

LeftRight(h, c) == <<"LeftRight", h, c>>

LeftRight2(t, v, m) ==
    CASE m[1] = "f" -> H(t[2], v, <<t[3], Zero>>)
      [] m[1] = "g" -> H(t[2], v, <<t[3], One>>)
      [] m[1] = "h" -> H(t[2], v, <<t[3], m[2]>>)

LeftRight3(t, v, m) ==
    CASE m[1] = "f" -> H(t[2], v, <<t[3], Zero, Zero>>)
      [] m[1] = "g" -> H(t[2], v, <<t[3], One, One>>)
      [] m[1] = "h" -> H(t[2], v, <<t[3], m[2][1], m[2][2]>>)

LeftRight4(t, v, m) ==
    CASE m[1] = "f" -> H(t[2], v, <<t[3], Zero, Zero, Zero>>)
      [] m[1] = "g" -> H(t[2], v, <<t[3], One, One, One>>)
      [] m[1] = "h" -> H(t[2], v, <<t[3], m[2][1], m[2][2], m[2][3]>>)

TopBottom(h, c) == <<"TopBottom", h, c>>

TopBottom2(t, v, m) ==
    CASE m[1] = "f" -> H(t[2], v, <<Zero, t[3]>>)
      [] m[1] = "g" -> H(t[2], v, <<One, t[3]>>)
      [] m[1] = "h" -> H(t[2], v, <<m[2], t[3]>>)

\* a slip: g taken at the all-1 corner, the supplied coordinate ignored
TopBottom3_unbound_g(t, v, m) ==
    CASE m[1] = "f" -> H(t[2], v, <<Zero, t[3], Zero>>)
      [] m[1] = "g" -> H(t[2], v, <<One, One, One>>)
      [] m[1] = "h" -> H(t[2], v, <<m[2][1], t[3], m[2][2]>>)

TopBottom3(t, v, m) ==
    CASE m[1] = "f" -> H(t[2], v, <<Zero, t[3], Zero>>)
      [] m[1] = "g" -> H(t[2], v, <<One, t[3], One>>)
      [] m[1] = "h" -> H(t[2], v, <<m[2][1], t[3], m[2][2]>>)

TopBottom4(t, v, m) ==
    CASE m[1] = "f" -> H(t[2], v, <<Zero, t[3], Zero, Zero>>)
      [] m[1] = "g" -> H(t[2], v, <<One, t[3], One, One>>)
      [] m[1] = "h" -> H(t[2], v, <<m[2][1], t[3], m[2][2], m[2][3]>>)

FrontBack(h, c) == <<"FrontBack", h, c>>

FrontBack3(t, v, m) ==
    CASE m[1] = "f" -> H(t[2], v, <<Zero, Zero, t[3]>>)
      [] m[1] = "g" -> H(t[2], v, <<One, One, t[3]>>)
      [] m[1] = "h" -> H(t[2], v, <<m[2][1], m[2][2], t[3]>>)

FrontBack4(t, v, m) ==
    CASE m[1] = "f" -> H(t[2], v, <<Zero, Zero, t[3], Zero>>)
      [] m[1] = "g" -> H(t[2], v, <<One, One, t[3], One>>)
      [] m[1] = "h" -> H(t[2], v, <<m[2][1], m[2][2], t[3], m[2][3]>>)

PastFuture(h, c) == <<"PastFuture", h, c>>

PastFuture4(t, v, m) ==
    CASE m[1] = "f" -> H(t[2], v, <<Zero, Zero, Zero, t[3]>>)
      [] m[1] = "g" -> H(t[2], v, <<One, One, One, t[3]>>)
      [] m[1] = "h" -> H(t[2], v, <<m[2][1], m[2][2], m[2][3], t[3]>>)

----------------------------------------------------------------------------
(* compose.rs: Compose<H1, H2, S1, S2>, one impl per pair of operand       *)
(* parameter shapes; the digits are the arities of h1 = t[2] and h2 = t[3]. *)

ComposeS_new(h1, h2) == <<"ComposeS", h1, h2>>

Compose11(t, v, m) ==
    CASE m[1] = "f" -> F(t[3], F(t[2], v))
      [] m[1] = "g" -> G(t[3], G(t[2], v))
      [] m[1] = "h" -> H(t[3], H(t[2], v, m[2][1]), m[2][2])

Compose21(t, v, m) ==
    CASE m[1] = "f" -> F(t[3], F(t[2], v))
      [] m[1] = "g" -> G(t[3], G(t[2], v))
      [] m[1] = "h" -> H(t[3], H(t[2], v, <<m[2][1], m[2][2]>>), m[2][3])

\* a slip: the left operand given the last coordinate in place of the first
Compose12_last_first(t, v, m) ==
    CASE m[1] = "f" -> F(t[3], F(t[2], v))
      [] m[1] = "g" -> G(t[3], G(t[2], v))
      [] m[1] = "h" -> H(t[3], H(t[2], v, m[2][3]), <<m[2][1], m[2][2]>>)

Compose12(t, v, m) ==
    CASE m[1] = "f" -> F(t[3], F(t[2], v))
      [] m[1] = "g" -> G(t[3], G(t[2], v))
      [] m[1] = "h" -> H(t[3], H(t[2], v, m[2][1]), <<m[2][2], m[2][3]>>)

Compose22(t, v, m) ==
    CASE m[1] = "f" -> F(t[3], F(t[2], v))
      [] m[1] = "g" -> G(t[3], G(t[2], v))
      [] m[1] = "h" -> H(t[3], H(t[2], v, <<m[2][1], m[2][2]>>), <<m[2][3], m[2][4]>>)

Compose31(t, v, m) ==
    CASE m[1] = "f" -> F(t[3], F(t[2], v))
      [] m[1] = "g" -> G(t[3], G(t[2], v))
      [] m[1] = "h" -> H(t[3], H(t[2], v, <<m[2][1], m[2][2], m[2][3]>>), m[2][4])

Compose13(t, v, m) ==
    CASE m[1] = "f" -> F(t[3], F(t[2], v))
      [] m[1] = "g" -> G(t[3], G(t[2], v))
      [] m[1] = "h" -> H(t[3], H(t[2], v, m[2][1]), <<m[2][2], m[2][3], m[2][4]>>)

Compose41(t, v, m) ==
    CASE m[1] = "f" -> F(t[3], F(t[2], v))
      [] m[1] = "g" -> G(t[3], G(t[2], v))
      [] m[1] = "h" -> H(t[3], H(t[2], v, <<m[2][1], m[2][2], m[2][3], m[2][4]>>), m[2][5])

----------------------------------------------------------------------------
(* Any other implementor of the trait, over the domain (): its f and g are *)
(* the values t[3] and t[4]; its h is the table t[5] on the parameters the *)
(* table holds and t[6] on every other; t[2] is its parameter arity.       *)

Impl(n, fv, gv, hv, dv) == <<"Impl", n, fv, gv, hv, dv>>

Impl_impl(t, v, m) ==
    CASE m[1] = "f" -> t[3]
      [] m[1] = "g" -> t[4]
      [] m[1] = "h" -> IF m[2] \in DOMAIN t[5] THEN t[5][m[2]] ELSE t[6]

----------------------------------------------------------------------------
(* Method resolution: the impl the compiler selects for a term.            *)

Arity(t) ==
    CASE t[1] \in {"Id", "Dirac", "DiracFrom", "Lerp", "QuadraticBezier", "CubicBezier", "Compose", "Inverse", "Diagonal"} -> 1
      [] t[1] = "Square" -> 2
      [] t[1] = "Cube" -> 3
      [] t[1] = "Impl" -> t[2]
      [] t[1] = "ComposeS" -> Arity(t[2]) + Arity(t[3])
      [] OTHER -> Arity(t[2]) - 1

\* the types whose impl does not depend on the parameter shape of an operand
Call_plain(t, v, m) ==
    CASE t[1] = "Id" -> Id_impl(t, v, m)
      [] t[1] = "Dirac" -> Dirac_impl(t, v, m)
      [] t[1] = "DiracFrom" -> DiracFrom_impl(t, v, m)
      [] t[1] = "Lerp" -> Lerp_impl(t, v, m)
      [] t[1] = "QuadraticBezier" -> QuadraticBezier_impl(t, v, m)
      [] t[1] = "CubicBezier" -> CubicBezier_impl(t, v, m)
      [] t[1] = "Compose" -> Compose_impl(t, v, m)
      [] t[1] = "Square" -> Square_impl(t, v, m)
      [] t[1] = "Cube" -> Cube_impl(t, v, m)
      [] t[1] = "Inverse" -> Inverse_impl(t, v, m)
      [] t[1] = "Impl" -> Impl_impl(t, v, m)

\* the types with one impl per parameter shape
ShapedTypes ==
    {"Diagonal", "ComposeS", "Left", "Right", "Top", "Bottom", "Front", "Back",
     "Past", "Future", "LeftRight", "TopBottom", "FrontBack", "PastFuture"}

Call_shaped(t, v, m) ==
    CASE t[1] = "Diagonal" /\ Arity(t[2]) = 2 -> Diagonal2(t, v, m)
      [] t[1] = "Diagonal" /\ Arity(t[2]) = 3 -> Diagonal3(t, v, m)
      [] t[1] = "Diagonal" /\ Arity(t[2]) = 4 -> Diagonal4(t, v, m)
      [] t[1] = "ComposeS" /\ Arity(t[2]) = 1 /\ Arity(t[3]) = 1 -> Compose11(t, v, m)
      [] t[1] = "ComposeS" /\ Arity(t[2]) = 2 /\ Arity(t[3]) = 1 -> Compose21(t, v, m)
      [] t[1] = "ComposeS" /\ Arity(t[2]) = 1 /\ Arity(t[3]) = 2 -> Compose12(t, v, m)
      [] t[1] = "ComposeS" /\ Arity(t[2]) = 2 /\ Arity(t[3]) = 2 -> Compose22(t, v, m)
      [] t[1] = "ComposeS" /\ Arity(t[2]) = 3 /\ Arity(t[3]) = 1 -> Compose31(t, v, m)
      [] t[1] = "ComposeS" /\ Arity(t[2]) = 1 /\ Arity(t[3]) = 3 -> Compose13(t, v, m)
      [] t[1] = "ComposeS" /\ Arity(t[2]) = 4 /\ Arity(t[3]) = 1 -> Compose41(t, v, m)
      [] t[1] = "Left" /\ Arity(t[2]) = 2 -> Left2(t, v, m)
      [] t[1] = "Left" /\ Arity(t[2]) = 3 -> Left3(t, v, m)
      [] t[1] = "Left" /\ Arity(t[2]) = 4 -> Left4(t, v, m)
      [] t[1] = "Right" /\ Arity(t[2]) = 2 -> Right2(t, v, m)
      [] t[1] = "Right" /\ Arity(t[2]) = 3 -> Right3(t, v, m)
      [] t[1] = "Right" /\ Arity(t[2]) = 4 -> Right4(t, v, m)
      [] t[1] = "Top" /\ Arity(t[2]) = 2 -> Top2(t, v, m)
      [] t[1] = "Top" /\ Arity(t[2]) = 3 -> Top3(t, v, m)
      [] t[1] = "Top" /\ Arity(t[2]) = 4 -> Top4(t, v, m)
      [] t[1] = "Bottom" /\ Arity(t[2]) = 2 -> Bottom2(t, v, m)
      [] t[1] = "Bottom" /\ Arity(t[2]) = 3 -> Bottom3(t, v, m)
      [] t[1] = "Bottom" /\ Arity(t[2]) = 4 -> Bottom4(t, v, m)
      [] t[1] = "Front" /\ Arity(t[2]) = 3 -> Front3(t, v, m)
      [] t[1] = "Front" /\ Arity(t[2]) = 4 -> Front4(t, v, m)
      [] t[1] = "Back" /\ Arity(t[2]) = 3 -> Back3(t, v, m)
      [] t[1] = "Back" /\ Arity(t[2]) = 4 -> Back4(t, v, m)
      [] t[1] = "Past" /\ Arity(t[2]) = 4 -> Past4(t, v, m)
      [] t[1] = "Future" /\ Arity(t[2]) = 4 -> Future4(t, v, m)
      [] t[1] = "LeftRight" /\ Arity(t[2]) = 2 -> LeftRight2(t, v, m)
      [] t[1] = "LeftRight" /\ Arity(t[2]) = 3 -> LeftRight3(t, v, m)
      [] t[1] = "LeftRight" /\ Arity(t[2]) = 4 -> LeftRight4(t, v, m)
      [] t[1] = "TopBottom" /\ Arity(t[2]) = 2 -> TopBottom2(t, v, m)
      [] t[1] = "TopBottom" /\ Arity(t[2]) = 3 -> TopBottom3(t, v, m)
      [] t[1] = "TopBottom" /\ Arity(t[2]) = 4 -> TopBottom4(t, v, m)
      [] t[1] = "FrontBack" /\ Arity(t[2]) = 3 -> FrontBack3(t, v, m)
      [] t[1] = "FrontBack" /\ Arity(t[2]) = 4 -> FrontBack4(t, v, m)
      [] t[1] = "PastFuture" /\ Arity(t[2]) = 4 -> PastFuture4(t, v, m)

----------------------------------------------------------------------------
(* lib.rs: the validation predicates.  h.left() is Left(&h), and a         *)
(* reference forwards f, g and h to what it borrows.                       *)

check(h, v) ==
    /\ PEq(H(h, v, Zero), F(h, v))
    /\ PEq(H(h, v, One), G(h, v))

check2(h, v) ==
    LET a == F(h, v)
        b == G(h, v)
    IN  /\ PEq(H(h, v, <<Zero, Zero>>), a)
        /\ PEq(H(h, v, <<One, One>>), b)
        /\ check(Left(h), v)
        /\ check(Right(h), v)
        /\ check(Top(h), v)
        /\ check(Bottom(h), v)

check3(h, v) ==
    LET a == F(h, v)
        b == G(h, v)
    IN  /\ PEq(H(h, v, <<Zero, Zero, Zero>>), a)
        /\ PEq(H(h, v, <<One, One, One>>), b)
        /\ check2(Left(h), v)
        /\ check2(Right(h), v)
        /\ check2(Top(h), v)
        /\ check2(Bottom(h), v)
        /\ check2(Front(h), v)
        /\ check2(Back(h), v)

\* a call into the library: a trait method on t, or a validation predicate
Call(t, v, m) ==
    CASE m[1] = "check" -> check(t, v)
      [] m[1] = "check2" -> check2(t, v)
      [] m[1] = "check3" -> check3(t, v)
      [] t[1] \in ShapedTypes -> Call_shaped(t, v, m)
      [] OTHER -> Call_plain(t, v, m)

----------------------------------------------------------------------------
(* The state machine: a constructed homotopy hm, an input x, and the last  *)
(* call made on them: op, its arguments after the input s (none, or the    *)
(* parameter of h), and its result: y from f, g and h, ok from the checks. *)
(* Calls are made one at a time: op is "new" between calls.                *)

NoArg == <<>>

\* every f64 of the format in [0, 1]
UnitInterval == {n \in 0..One : Round(n, 0, FALSE) = n}

\* scalar parameters: the unit interval, and values outside it
SVals == UnitInterval \cup {Lit(2), f64_neg(One), NegZero, NaN}

\* coordinates of array parameters: 0, the smallest positive f64, 0.5, 1
SCoords == {Zero, 1, Half, One}

\* f64 inputs
XVals == {<<Zero>>, <<NegZero>>, <<One>>, <<Lit(3)>>, <<f64_neg(Half)>>, <<NaN>>, <<PInf>>}

\* endpoints and control points
YVals == {<<Zero>>, <<NegZero>>, <<One>>, <<Lit(3)>>, <<Lit(10)>>, <<NaN>>, <<PInf>>}

RECURSIVE Dom(_)
\* the inputs of a homotopy: its domain type X
Dom(t) ==
    CASE t[1] = "Id" -> XVals
      [] t[1] = "DiracFrom" -> IF t[2] \in {"one", "zero"} THEN {<<>>} ELSE XVals
      [] t[1] \in {"Dirac", "Lerp", "QuadraticBezier", "CubicBezier", "Impl"} -> {<<>>}
      [] t[1] = "Square" -> Dom(t[2]) \X Dom(t[3])
      [] t[1] = "Cube" -> Dom(t[2]) \X Dom(t[3]) \X Dom(t[4])
      [] OTHER -> Dom(t[2])

\* the corners of the parameter cube [f64; n]
Corners(n) ==
    CASE n = 2 -> {Zero, One} \X {Zero, One}
      [] n = 3 -> {Zero, One} \X {Zero, One} \X {Zero, One}
      [] n = 4 -> {Zero, One} \X {Zero, One} \X {Zero, One} \X {Zero, One}
      [] n = 5 -> {Zero, One} \X {Zero, One} \X {Zero, One} \X {Zero, One} \X {Zero, One}

RECURSIVE OverImpl(_)
\* t is an implementor given by a table, or a face, cross-section, diagonal or
\* composition (compose.rs) of one
OverImpl(t) ==
    CASE t[1] = "Impl" -> TRUE
      [] t[1] = "ComposeS" -> OverImpl(t[2]) \/ OverImpl(t[3])
      [] t[1] \in ShapedTypes -> OverImpl(t[2])
      [] OTHER -> FALSE

\* the parameters h is sampled at, by the parameter type of the homotopy
Params(t) ==
    CASE Arity(t) = 1 /\ t[1] \notin ShapedTypes /\ t[1] # "Impl" -> SVals
      [] Arity(t) = 1 -> SCoords
      [] Arity(t) \in 2..5 /\ OverImpl(t) -> Corners(Arity(t))
      [] Arity(t) = 2 -> SCoords \X SCoords
      [] Arity(t) = 3 -> SCoords \X SCoords \X SCoords
      [] Arity(t) = 4 -> SCoords \X SCoords \X SCoords \X SCoords
      [] Arity(t) = 5 -> SCoords \X SCoords \X SCoords \X SCoords \X SCoords

call_f ==
    /\ op = "new"
    /\ op' = "f" /\ s' = NoArg /\ y' = Call(hm, x, <<"f">>) /\ ok' = FALSE
    /\ UNCHANGED <<hm, x>>

call_g ==
    /\ op = "new"
    /\ op' = "g" /\ s' = NoArg /\ y' = Call(hm, x, <<"g">>) /\ ok' = FALSE
    /\ UNCHANGED <<hm, x>>

call_h ==
    /\ op = "new"
    /\ \E k \in Params(hm) :
        /\ op' = "h" /\ s' = <<k>> /\ y' = Call(hm, x, <<"h", k>>) /\ ok' = FALSE
        /\ UNCHANGED <<hm, x>>

call_check ==
    /\ op = "new"
    /\ Arity(hm) = 1
    /\ op' = "check" /\ s' = NoArg /\ y' = NoArg /\ ok' = Call(hm, x, <<"check">>)
    /\ UNCHANGED <<hm, x>>

call_check2 ==
    /\ op = "new"
    /\ Arity(hm) = 2
    /\ op' = "check2" /\ s' = NoArg /\ y' = NoArg /\ ok' = Call(hm, x, <<"check2">>)
    /\ UNCHANGED <<hm, x>>

call_check3 ==
    /\ op = "new"
    /\ Arity(hm) = 3
    /\ op' = "check3" /\ s' = NoArg /\ y' = NoArg /\ ok' = Call(hm, x, <<"check3">>)
    /\ UNCHANGED <<hm, x>>

\* the caller is done with the result; the homotopy is ready for another call
drop_result ==
    /\ op # "new"
    /\ op' = "new" /\ s' = NoArg /\ y' = NoArg /\ ok' = FALSE
    /\ UNCHANGED <<hm, x>>

Next ==
    \/ call_f \/ call_g \/ call_h
    \/ call_check \/ call_check2 \/ call_check3
    \/ drop_result

\* the state after constructing one of the homotopies of a family
Constructed(family) ==
    /\ hm \in family
    /\ x \in Dom(hm)
    /\ op = "new" /\ s = NoArg /\ y = NoArg /\ ok = FALSE

\* the homotopies of the tests check_composition, check_square, check_cube
TestLerp == Lerp(<<Lit(3)>>, <<Lit(10)>>)

TestCompose == Compose_new(TestLerp, DiracFrom_new("sub2", "add2"))

TestSquare == Square_new(Lerp(<<Lit(1)>>, <<Lit(5)>>), Lerp(<<Lit(11)>>, <<Lit(15)>>))

TestCube ==
    Cube_new(Lerp(<<Lit(1)>>, <<Lit(2)>>), Lerp(<<Lit(3)>>, <<Lit(4)>>),
             Lerp(<<Lit(5)>>, <<Lit(6)>>))

Tests == {TestLerp, TestCompose, TestSquare, TestCube}

\* the primitive homotopies
Primitives ==
    {<<"Id">>, <<"Dirac">>, DiracFrom_new("one", "zero"), DiracFrom_new("sub2", "add2"),
     DiracFrom_new("add2", "sub2")}
    \cup {Lerp(a, b) : a, b \in YVals}
    \cup {QuadraticBezier(a, b, c) : a, b, c \in YVals}
    \cup {CubicBezier(a, b, c, d) : a, b, c, d \in YVals}

Init == Constructed(Primitives \cup Tests)

Spec == Init /\ [][Next]_vars

----------------------------------------------------------------------------
(* Homotopies with 2, 3 and 4 parameters, and their faces.                 *)

\* f and g of a table-given implementor
EndVals == {<<Zero>>, <<NegZero>>, <<One>>, <<NaN>>}

\* every 2-parameter implementor, up to the values at its corners
Impls2 ==
    {Impl(2, fv, gv, hv, <<Zero>>) : fv \in EndVals, gv \in EndVals,
                                     hv \in [Corners(2) -> EndVals]}

\* 3-parameter implementors: each corner an ordinary value or NaN
Impls3 ==
    {Impl(3, fv, gv, hv, <<Zero>>) : fv \in EndVals, gv \in EndVals,
                                     hv \in [Corners(3) -> {<<Zero>>, <<NaN>>}]}

Step == DiracFrom_new("sub2", "add2")

\* 2-parameter homotopies built from the library
Lib2 ==
    {TestSquare, Square_new(<<"Id">>, Step), ComposeS_new(TestLerp, Step),
     ComposeS_new(<<"Id">>, Step)}

\* 3-parameter homotopies built from the library
Lib3 ==
    {TestCube, Cube_new(<<"Dirac">>, TestLerp, TestCompose),
     ComposeS_new(TestSquare, <<"Id">>),
     ComposeS_new(TestLerp, ComposeS_new(<<"Id">>, Step))}

\* the most corners of a 4-parameter implementor that hold NaN
MaxNaN == 1

\* a value of its own at each corner: [a, b, c, d] |-> 8a + 4b + 2c + d
Distinct4(c) == <<Lit((8 * c[1] + 4 * c[2] + 2 * c[3] + c[4]) \div One)>>

\* 4-parameter implementors: the corners all differ, but for those that hold NaN
Impls4 ==
    {Impl(4, fv, gv, [c \in Corners(4) |-> IF c \in N THEN <<NaN>> ELSE Distinct4(c)],
          <<Zero>>) :
        fv \in {<<Zero>>, <<Lit(15)>>, <<NaN>>}, gv \in {<<Zero>>, <<Lit(15)>>, <<NaN>>},
        N \in {M \in SUBSET Corners(4) : Cardinality(M) <= MaxNaN}}

\* 4-parameter homotopies built from the library (compose.rs)
Lib4 ==
    {ComposeS_new(TestCube, <<"Id">>),
     ComposeS_new(TestSquare, Square_new(<<"Id">>, Step))}

Faces2(h) == {Left(h), Right(h), Top(h), Bottom(h)}

Faces3(h) == {Left(h), Right(h), Top(h), Bottom(h), Front(h), Back(h)}

Faces4(h) == Faces3(h) \cup {Past(h), Future(h)}

Homs2 == Impls2 \cup Lib2

Homs3 == Impls3 \cup Lib3

Homs4 == Impls4 \cup Lib4

InitFaces ==
    Constructed(Homs2 \cup Homs3
                \cup UNION {Faces2(h) : h \in Homs2}
                \cup UNION {Faces3(h) : h \in Homs3}
                \cup UNION {Faces4(h) : h \in Homs4})

SpecFaces == InitFaces /\ [][Next]_vars

----------------------------------------------------------------------------
(* Scalar-parameter homotopies and the combinators of lib.rs over them.    *)

\* scalar-parameter implementors, up to f, g, h(0) and h(1)
Impls1 ==
    {Impl(1, fv, gv, [k \in {Zero, One} |-> IF k = Zero THEN h0 ELSE h1], <<Half>>) :
        fv \in EndVals, gv \in EndVals, h0 \in EndVals, h1 \in EndVals}

\* scalar-parameter homotopies from f64 to f64
OnF64 ==
    {<<"Id">>, Step, DiracFrom_new("add2", "sub2"), DiracFrom_new("signum", "add2")}

\* scalar-parameter homotopies from () to f64
OnUnit ==
    {<<"Dirac">>, DiracFrom_new("one", "zero"), TestLerp, Lerp(<<NegZero>>, <<One>>),
     Lerp(<<Zero>>, <<PInf>>), Lerp(<<NaN>>, <<One>>)} \cup Impls1

Scalars == OnUnit \cup OnF64

\* the scalar-parameter homotopies the cubes are built of
CubeAxes == {<<"Dirac">>, TestLerp, Lerp(<<NaN>>, <<One>>), Step}

Combined ==
    {Compose_new(h1, h2) : h1 \in Scalars, h2 \in OnF64}
    \cup {Inverse(h) : h \in Scalars \cup {TestCompose}}
    \cup {Inverse(Inverse(h)) : h \in Scalars \cup {TestCompose}}
    \cup {Square_new(h1, h2) : h1 \in Scalars, h2 \in CubeAxes}
    \cup {Cube_new(h1, h2, h3) : h1 \in CubeAxes, h2 \in CubeAxes, h3 \in CubeAxes}

InitCombine == Constructed(Combined \cup {TestCompose, TestSquare, TestCube})

SpecCombine == InitCombine /\ [][Next]_vars

----------------------------------------------------------------------------
(* The compositions of compose.rs, one family per pair of operand shapes.  *)

\* left operands with 2, 3 and 4 parameters
Left2s == {h \in Impls2 : h[3] = <<Zero>> /\ h[4] = <<One>>}

Left3s == {h \in Impls3 : h[3] = <<Zero>> /\ h[4] = <<One>>}

Left4s == {h \in Impls4 : h[3] = <<Zero>> /\ h[4] = <<Lit(15)>>}

\* right operands with 2 and 3 parameters, from f64
Right2s == {ComposeS_new(a, Step) : a \in OnF64}

Right3s == {ComposeS_new(ComposeS_new(<<"Id">>, Step), a) : a \in OnF64}

Mixed ==
    {ComposeS_new(h1, h2) : h1 \in Scalars \cup Left2s \cup Left3s \cup Left4s, h2 \in OnF64}
    \cup {ComposeS_new(h1, h2) : h1 \in Scalars \cup Left2s, h2 \in Right2s}
    \cup {ComposeS_new(h1, h2) : h1 \in Scalars, h2 \in Right3s}
    \cup {h \in Lib2 \cup Lib3 \cup Lib4 : h[1] = "ComposeS"}

InitMixed == Constructed(Mixed \cup Tests)

SpecMixed == InitMixed /\ [][Next]_vars

----------------------------------------------------------------------------
(* The conversions between Lerp and the Bezier curves.                     *)

\* end points: zeros, values below and above 1 of either sign, the largest
\* finite value, the infinities and NaN
BezierEnds ==
    {<<v>> : v \in {Zero, NegZero, 1, 3, f64_neg(17), Half, One, f64_neg(72), 100,
                    Lit(3), Lit(10), f64_neg(Lit(10)), 1000, MaxN, f64_neg(MaxN),
                    PInf, NInf, NaN}}

Converted ==
    {QuadraticBezier_from_linear(a, b) : a \in BezierEnds, b \in BezierEnds}
    \cup {CubicBezier_from_quadratic(a, b, c) : a \in YVals, b \in YVals, c \in YVals}

InitConverted == Constructed(Converted \cup Tests)

SpecConverted == InitConverted /\ [][Next]_vars

----------------------------------------------------------------------------
(* Diagonals and cross-sections (diagonal(), left_right(s), top_bottom(s),  *)
(* front_back(s), and PastFuture).                                          *)

\* the coordinate handed to a cross-section: the boundary values, 0.5, -0.0, NaN
SectionAt == {Zero, One, Half, NegZero, NaN}

Sections2(h, c) == {LeftRight(h, c), TopBottom(h, c)}

Sections3(h, c) == Sections2(h, c) \cup {FrontBack(h, c)}

Sections4(h, c) == Sections3(h, c) \cup {PastFuture(h, c)}

\* the implementors that are cut: f one of 0.0 and NaN, g one of 1.0 (0.0 on three
\* parameters) and NaN, every table of corners
Cut2 == {h \in Impls2 : h[3] \in {<<Zero>>, <<NaN>>} /\ h[4] \in {<<One>>, <<NaN>>}}

Cut3 == {h \in Impls3 : h[3] \in {<<Zero>>, <<NaN>>} /\ h[4] \in {<<Zero>>, <<NaN>>}}

\* the table-given implementors are cut at the boundary values, where their
\* tables lie; the homotopies built from the library at every value of SectionAt
Sliced ==
    {Diagonal_new(h) : h \in Homs2 \cup Homs3 \cup Homs4}
    \cup UNION {Sections2(h, c) : h \in Cut2, c \in {Zero, One}}
    \cup UNION {Sections3(h, c) : h \in Cut3, c \in {Zero, One}}
    \cup UNION {Sections4(h, c) : h \in Impls4, c \in {Zero, One}}
    \cup UNION {Sections2(h, c) : h \in Lib2, c \in SectionAt}
    \cup UNION {Sections3(h, c) : h \in Lib3, c \in SectionAt}
    \cup UNION {Sections4(h, c) : h \in Lib4, c \in SectionAt}

InitSliced == Constructed(Sliced)

SpecSliced == InitSliced /\ [][Next]_vars

----------------------------------------------------------------------------
(* The homotopies check2 and check3 are called on.                         *)

\* 3-parameter implementors without NaN: f, g and every corner 0.0 or 1.0
Plain3 ==
    {Impl(3, fv, gv, hv, <<Zero>>) : fv \in {<<Zero>>, <<One>>}, gv \in {<<Zero>>, <<One>>},
                                     hv \in [Corners(3) -> {<<Zero>>, <<One>>}]}

Checked == Impls2 \cup Impls3 \cup Plain3 \cup Lib2 \cup Lib3 \cup Tests

InitChecked == Constructed(Checked)

SpecChecked == InitChecked /\ [][Next]_vars

----------------------------------------------------------------------------
(* Properties of the primitives, under Spec.                               *)

\* the endpoints and control points of a Lerp or Bezier term are all finite
FiniteArgs(t) == \A i \in 2..Len(t) : IsFinite(t[i][1])

\* no NaN or infinity enters the primitive t at input v
Ordinary(t, v) ==
    CASE t[1] \in {"Id", "DiracFrom"} -> v = <<>> \/ v[1] # NaN
      [] t[1] = "Dirac" -> TRUE
      [] t[1] \in {"Lerp", "QuadraticBezier", "CubicBezier"} -> FiniteArgs(t)

\* C1 as stated: check returns true on every primitive homotopy, for every input
\* and every choice of endpoints and control points.
C1_EveryInput == (op = "check" /\ hm \in Primitives) => ok

\* C1 amended: check returns true on every primitive homotopy whenever the input
\* is not NaN and the endpoints and control points are finite.
C1_PrimitivesValid ==
    (op = "check" /\ hm \in Primitives /\ Ordinary(hm, x)) => ok

C1_Witness ==
    /\ op = "check" /\ ok
    /\ hm = CubicBezier(<<Zero>>, <<Lit(3)>>, <<One>>, <<Lit(10)>>)
----------------------------------------------------------------------------
(* Properties of the faces, under SpecFaces.                               *)

\* the all-0 and the all-1 parameter of arity n
Origin(n) == [i \in 1..n |-> Zero]

AllOnes(n) == [i \in 1..n |-> One]

\* the corner invariant of an n-parameter homotopy h at v (n >= 2)
CornersHold(h, v, n) ==
    /\ PEq(H(h, v, Origin(n)), F(h, v))
    /\ PEq(H(h, v, AllOnes(n)), G(h, v))

\* the value of h at every corner of its parameter cube equals itself
ReflexiveCorners(h, v, n) == \A c \in Corners(n) : PEq(H(h, v, c), H(h, v, c))

IsFaceOf(t, n) ==
    /\ t[1] \in {"Left", "Right", "Top", "Bottom", "Front", "Back", "Past", "Future"}
    /\ Arity(t[2]) = n

\* C2 as stated: when the all-0 and all-1 corners of a 2-parameter homotopy satisfy
\* the invariant, check returns true on each of its four faces, and when those of a
\* 3-parameter homotopy do, check2 returns true on each of its six faces; so check2
\* and check3 of the parent return true.
C2_CornersSuffice ==
    /\ (op = "check" /\ IsFaceOf(hm, 2) /\ CornersHold(hm[2], x, 2)) => ok
    /\ (op = "check2" /\ IsFaceOf(hm, 3) /\ CornersHold(hm[2], x, 3)) => ok
    /\ (op = "check2" /\ CornersHold(hm, x, 2)) => ok
    /\ (op = "check3" /\ CornersHold(hm, x, 3)) => ok

\* C2 amended: the same, for homotopies whose value at every corner of the parameter
\* square or cube equals itself (is not NaN).
C2_FacesValid ==
    /\ (op = "check" /\ IsFaceOf(hm, 2) /\ CornersHold(hm[2], x, 2)
            /\ ReflexiveCorners(hm[2], x, 2)) => ok
    /\ (op = "check2" /\ IsFaceOf(hm, 3) /\ CornersHold(hm[2], x, 3)
            /\ ReflexiveCorners(hm[2], x, 3)) => ok
    /\ (op = "check2" /\ CornersHold(hm, x, 2) /\ ReflexiveCorners(hm, x, 2)) => ok
    /\ (op = "check3" /\ CornersHold(hm, x, 3) /\ ReflexiveCorners(hm, x, 3)) => ok

C2_Witness == op = "check2" /\ hm = Back(TestCube) /\ ok

\* C3 as stated: when the all-0 and all-1 corners of a 4-parameter homotopy satisfy
\* the invariant, check3 returns true on each of its eight faces.
C3_CornersSuffice4 ==
    (op = "check3" /\ IsFaceOf(hm, 4) /\ CornersHold(hm[2], x, 4)) => ok

\* C3 amended: the same, for homotopies whose value at each of the sixteen corners
\* of the parameter cube equals itself (is not NaN).
C3_Faces4Valid ==
    (op = "check3" /\ IsFaceOf(hm, 4) /\ CornersHold(hm[2], x, 4)
        /\ ReflexiveCorners(hm[2], x, 4)) => ok

C3_Witness ==
    /\ op = "check3" /\ ok
    /\ hm[1] = "Future" /\ hm[2] \in Impls4
    /\ CornersHold(hm[2], x, 4) /\ ReflexiveCorners(hm[2], x, 4)
----------------------------------------------------------------------------
(* Properties of the combinators, under SpecCombine.                       *)

\* the last call was op on a homotopy of type ty
Called(o, ty) == op = o /\ hm[1] = ty

\* check(h, v), as a caller of the library evaluates it
Valid(h, v) == Call(h, v, <<"check">>)

\* C4: f, g and h of Square(h1, h2) are the pairs of those of h1 at x1, s0 and of
\* h2 at x2, s1, and of Cube(h1, h2, h3) the triples, so that component i is a
\* function of x_i and s_i alone.  When check holds for each component at its
\* input, check2 of the Square and check3 of the Cube return true.
C4_PerAxisProduct ==
    /\ Called("f", "Square") => y = <<F(hm[2], x[1]), F(hm[3], x[2])>>
    /\ Called("g", "Square") => y = <<G(hm[2], x[1]), G(hm[3], x[2])>>
    /\ Called("h", "Square") => y = <<H(hm[2], x[1], s[1][1]), H(hm[3], x[2], s[1][2])>>
    /\ Called("f", "Cube") => y = <<F(hm[2], x[1]), F(hm[3], x[2]), F(hm[4], x[3])>>
    /\ Called("g", "Cube") => y = <<G(hm[2], x[1]), G(hm[3], x[2]), G(hm[4], x[3])>>
    /\ Called("h", "Cube") =>
        y = <<H(hm[2], x[1], s[1][1]), H(hm[3], x[2], s[1][2]), H(hm[4], x[3], s[1][3])>>
    /\ (Called("check2", "Square") /\ Valid(hm[2], x[1]) /\ Valid(hm[3], x[2])) => ok
    /\ (Called("check3", "Cube") /\ Valid(hm[2], x[1]) /\ Valid(hm[3], x[2])
            /\ Valid(hm[4], x[3])) => ok

C4_Witness ==
    /\ Called("check2", "Square") /\ ok
    /\ hm[2] \in Impls1 /\ hm[3] = Step /\ x[2] = <<Lit(3)>>

\* f, g and h of Compose(h1, h2) are those of h2 after those of h1, with the one
\* parameter handed to both
ComposeDefined ==
    /\ Called("f", "Compose") => y = F(hm[3], F(hm[2], x))
    /\ Called("g", "Compose") => y = G(hm[3], G(hm[2], x))
    /\ Called("h", "Compose") => y = H(hm[3], H(hm[2], x, s[1]), s[1])

\* Compose(Lerp(3, 10), DiracFrom(x - 2, x + 2)): 1 at 0, 8.5 at 0.5, 12 at 1, and
\* lerp(3, 10, s) + 2 at every s other than 0
ComposeScenario ==
    (op = "h" /\ hm = TestCompose) =>
        /\ s[1] = Zero => y = <<Lit(1)>>
        /\ s[1] = Half => y = <<f64_add(Lit(8), Half)>>
        /\ s[1] = One => y = <<Lit(12)>>
        /\ ~f64_eq(s[1], Zero) => y = Apply("add2", H(TestLerp, x, s[1]))

\* h2 satisfies the invariant at the endpoints of h1 at x
ValidAtEnds(h1, h2, v) == Valid(h2, F(h1, v)) /\ Valid(h2, G(h1, v))

\* C5 as stated: Compose is h2 after h1 with the parameter shared, the scenario
\* has its values, and check returns true on Compose(h1, h2) at x whenever check
\* holds for h1 at x and for h2 at h1.f(x) and h1.g(x).
C5_ComposeValid ==
    /\ ComposeDefined
    /\ ComposeScenario
    /\ (Called("check", "Compose") /\ Valid(hm[2], x) /\ ValidAtEnds(hm[2], hm[3], x)) => ok

\* h at 0 and 1 returns the very values f and g return (and not, say, 0.0 for -0.0)
SameAtEnds(h, v) == H(h, v, Zero) = F(h, v) /\ H(h, v, One) = G(h, v)

\* C5 amended: the same, with check on the composition promised only when h1 at 0
\* and at 1 returns the very values of h1.f(x) and h1.g(x).
C5_ComposeValidSameEnds ==
    /\ ComposeDefined
    /\ ComposeScenario
    /\ (Called("check", "Compose") /\ Valid(hm[2], x) /\ SameAtEnds(hm[2], x)
            /\ ValidAtEnds(hm[2], hm[3], x)) => ok

C5_Witness ==
    /\ Called("check", "Compose") /\ ok
    /\ hm[2] = TestLerp /\ hm[3] = DiracFrom_new("signum", "add2")
    /\ Valid(hm[2], x) /\ SameAtEnds(hm[2], x) /\ ValidAtEnds(hm[2], hm[3], x)

\* C7: f and g of Inverse(h) are g and f of h, its h at s is that of h at 1 - s,
\* and check returns true on Inverse(h) at x whenever it does on h at x.
C7_InverseReverses ==
    /\ Called("f", "Inverse") => y = G(hm[2], x)
    /\ Called("g", "Inverse") => y = F(hm[2], x)
    /\ Called("h", "Inverse") => y = H(hm[2], x, f64_sub(One, s[1]))
    /\ (Called("check", "Inverse") /\ Valid(hm[2], x)) => ok

C7_Witness ==
    /\ Called("check", "Inverse") /\ ok
    /\ hm[2] = TestCompose

\* hm is Inverse(Inverse(h)) for some h
IsDoubleInverse == hm[1] = "Inverse" /\ hm[2][1] = "Inverse"

\* C8 as stated: f, g and h of Inverse(Inverse(h)) return what those of h return,
\* at every x and s.
C8_Involution ==
    IsDoubleInverse =>
        /\ op = "f" => y = F(hm[2][2], x)
        /\ op = "g" => y = G(hm[2][2], x)
        /\ op = "h" => y = H(hm[2][2], x, s[1])

\* 1 - (1 - k) is the very value k
Restored(k) == f64_sub(One, f64_sub(One, k)) = k

\* C8 amended: f and g of Inverse(Inverse(h)) return what those of h return; its h
\* at s returns what h returns at 1 - (1 - s), which is s itself when s is 0 or
\* lies in [0.5, 1].
C8_InvolutionWhereRestored ==
    IsDoubleInverse =>
        /\ op = "f" => y = F(hm[2][2], x)
        /\ op = "g" => y = G(hm[2][2], x)
        /\ op = "h" => y = H(hm[2][2], x, f64_sub(One, f64_sub(One, s[1])))
        /\ (op = "h" /\ (s[1] = Zero \/ s[1] \in Half..One)) => Restored(s[1])
        /\ (op = "h" /\ Restored(s[1])) => y = H(hm[2][2], x, s[1])

C8_Witness ==
    /\ IsDoubleInverse /\ op = "h" /\ hm[2][2] = TestLerp
    /\ s = <<Half + 2>> /\ y = H(TestLerp, x, Half + 2)
----------------------------------------------------------------------------
(* Properties of the compositions of compose.rs, under SpecMixed.          *)

\* the n coordinates of k from the i-th on, as the parameter of an operand
Part(k, i, n) == IF n = 1 THEN k[i] ELSE SubSeq(k, i, i + n - 1)

\* f, g and h of the composition are those of h2 after those of h1, the first
\* coordinates of s going to h1 and the remaining ones to h2
SplitDefined ==
    /\ Called("f", "ComposeS") => y = F(hm[3], F(hm[2], x))
    /\ Called("g", "ComposeS") => y = G(hm[3], G(hm[2], x))
    /\ Called("h", "ComposeS") =>
        /\ Len(s[1]) = Arity(hm[2]) + Arity(hm[3])
        /\ y = H(hm[3], H(hm[2], x, Part(s[1], 1, Arity(hm[2]))),
                 Part(s[1], Arity(hm[2]) + 1, Arity(hm[3])))

\* the all-0 and all-1 parameter of h
AtStart(h) == IF Arity(h) = 1 THEN Zero ELSE Origin(Arity(h))

AtEnd(h) == IF Arity(h) = 1 THEN One ELSE AllOnes(Arity(h))

\* the all-0 / all-1 corner invariant of h at v
CornerInv(h, v) == PEq(H(h, v, AtStart(h)), F(h, v)) /\ PEq(H(h, v, AtEnd(h)), G(h, v))

\* the last call was h of a composition at the all-0 or the all-1 corner, and its
\* result is compared with f or g
CornerAgrees ==
    /\ (op = "h" /\ s[1] = AtStart(hm)) => PEq(y, F(hm, x))
    /\ (op = "h" /\ s[1] = AtEnd(hm)) => PEq(y, G(hm, x))

\* C6 as stated: the parameter is split positionally, and the composition satisfies
\* the corner invariant whenever h1 does at x and h2 does at h1.f(x) and h1.g(x).
C6_SplitValid ==
    /\ SplitDefined
    /\ (hm[1] = "ComposeS" /\ CornerInv(hm[2], x) /\ CornerInv(hm[3], F(hm[2], x))
            /\ CornerInv(hm[3], G(hm[2], x))) => CornerAgrees

\* h at the all-0 and all-1 corners returns the very values f and g return
SameAtCorners(h, v) == H(h, v, AtStart(h)) = F(h, v) /\ H(h, v, AtEnd(h)) = G(h, v)

\* C6 amended: the same, with the corner invariant of the composition promised only
\* when h1 at its corners returns the very values of h1.f(x) and h1.g(x).
C6_SplitValidSameCorners ==
    /\ SplitDefined
    /\ (hm[1] = "ComposeS" /\ CornerInv(hm[2], x) /\ SameAtCorners(hm[2], x)
            /\ CornerInv(hm[3], F(hm[2], x)) /\ CornerInv(hm[3], G(hm[2], x))) => CornerAgrees

C6_Witness ==
    /\ Called("h", "ComposeS") /\ Arity(hm[2]) = 1 /\ Arity(hm[3]) = 2
    /\ s[1] = AtEnd(hm) /\ PEq(y, G(hm, x))
    /\ hm[2] = TestLerp /\ hm[3][2] = DiracFrom_new("signum", "add2")
    /\ CornerInv(hm[2], x) /\ SameAtCorners(hm[2], x)
    /\ CornerInv(hm[3], F(hm[2], x)) /\ CornerInv(hm[3], G(hm[2], x))
----------------------------------------------------------------------------
(* Properties of the conversions, under SpecConverted.                     *)

\* the magnitude of a value other than NaN, in grid units
Abs(a) == IF Val(a) < 0 THEN 0 - Val(a) ELSE Val(a)

\* a and b are finite and differ by at most 4 roundings of a value of magnitude
\* mag: 4 * 2^-Prec * mag, or 4 units of the grid if that is more
Within(a, b, mag) ==
    /\ IsFinite(a) /\ IsFinite(b)
    /\ Abs(Val(a) - Val(b)) * 2^Prec <= 4 * (IF mag > 2^Prec THEN mag ELSE 2^Prec)

\* what the last call on from_linear(a, b) returned, against Lerp(a, b): f and g
\* the same, h at a parameter in [0, 1] within tolerance
AgreesWithLerp(a, b) ==
    /\ op = "f" => y = F(Lerp(a, b), x)
    /\ op = "g" => y = G(Lerp(a, b), x)
    /\ (op = "h" /\ s[1] \in UnitInterval) =>
           Within(y[1], H(Lerp(a, b), x, s[1])[1],
                  IF Abs(a[1]) > Abs(b[1]) THEN Abs(a[1]) ELSE Abs(b[1]))

\* from_linear over the end points, tabulated
FromLinear ==
    {<<a, b, QuadraticBezier_from_linear(a, b)>> : a \in BezierEnds, b \in BezierEnds}

C10_QuadraticExact ==
    \A a \in YVals, b \in YVals, c \in YVals :
        hm = CubicBezier_from_quadratic(a, b, c) =>
            /\ op = "f" => y = F(QuadraticBezier(a, b, c), x)
            /\ op = "g" => y = G(QuadraticBezier(a, b, c), x)
            /\ op = "h" => y = H(QuadraticBezier(a, b, c), x, s[1])

C10_Witness ==
    /\ hm = CubicBezier_from_quadratic(<<Zero>>, <<Lit(3)>>, <<Lit(10)>>)
    /\ op = "h" /\ s = <<Half + 2>>
    /\ y = H(QuadraticBezier(<<Zero>>, <<Lit(3)>>, <<Lit(10)>>), x, Half + 2)
    /\ IsFinite(y[1]) /\ y # <<Zero>>
----------------------------------------------------------------------------
(* Properties of the step functions, under Spec.                           *)

\* s == 0.0 holds of 0.0 and -0.0 and of no other f64
IsZero(k) == k \in {Zero, NegZero}

\* C11: Dirac.h((), s) is 1.0 when s == 0 and 0.0 for every other s, in [0, 1] or
\* not; DiracFrom(fx, gx).h(x, s) is fx(x) when s == 0 and gx(x) for every other s,
\* however small; every parameter yields one of these values.
C11_StepAtZero ==
    /\ Called("h", "Dirac") => y = (IF IsZero(s[1]) THEN <<One>> ELSE <<Zero>>)
    /\ Called("h", "DiracFrom") =>
           y = (IF IsZero(s[1]) THEN Apply(hm[2], x) ELSE Apply(hm[3], x))
    /\ Called("f", "Dirac") => y = <<One>>
    /\ Called("g", "Dirac") => y = <<Zero>>

C11_Witness ==
    /\ Called("h", "DiracFrom") /\ hm = DiracFrom_new("sub2", "add2")
    /\ x = <<One>> /\ s = <<1>> /\ y = <<Lit(3)>>
----------------------------------------------------------------------------
(* Properties of the diagonals and cross-sections, under SpecSliced.       *)

\* the parameter of arity n with every coordinate k
Tied(k, n) == [i \in 1..n |-> k]

\* C12: f and g of Diagonal(h) are those of h, and its h at s is h's at [s, ..., s];
\* check returns true on Diagonal(h) whenever the all-0 and all-1 corners of h
\* satisfy the invariant; the diagonal of Square(Lerp(1,5), Lerp(11,15)) at 0.5 is
\* (3.0, 13.0).
C12_DiagonalTies ==
    /\ Called("f", "Diagonal") => y = F(hm[2], x)
    /\ Called("g", "Diagonal") => y = G(hm[2], x)
    /\ Called("h", "Diagonal") => y = H(hm[2], x, Tied(s[1], Arity(hm[2])))
    /\ (Called("check", "Diagonal") /\ CornersHold(hm[2], x, Arity(hm[2]))) => ok
    /\ (Called("h", "Diagonal") /\ hm[2] = TestSquare /\ s[1] = Half) =>
           y = <<<<Lit(3)>>, <<Lit(13)>>>>

C12_Witness ==
    /\ Called("h", "Diagonal") /\ hm[2] = TestSquare /\ s = <<Half>>
    /\ y = <<<<Lit(3)>>, <<Lit(13)>>>>
----------------------------------------------------------------------------
(* Properties of the axis-fixing faces, under SpecFaces.                   *)

\* the axis a face or cross-section fixes, counted from 1, and the value a
\* face fixes it to
AxisOf(name) ==
    CASE name \in {"Left", "Right", "LeftRight"} -> 1
      [] name \in {"Top", "Bottom", "TopBottom"} -> 2
      [] name \in {"Front", "Back", "FrontBack"} -> 3
      [] name \in {"Past", "Future", "PastFuture"} -> 4

ValueOf(name) == IF name \in {"Left", "Top", "Front", "Past"} THEN Zero ELSE One

\* the parameter k of a homotopy of arity n, as a vector of n coordinates
Coords(k, n) == IF n = 1 THEN <<k>> ELSE k

\* the vector k with c put in as coordinate i, the others kept in order
InsertAt(k, i, c) == SubSeq(k, 1, i - 1) \o <<c>> \o SubSeq(k, i, Len(k))

\* the corner of the parent of the face t with the fixed axis at its fixed value
\* and every remaining axis at fill
FaceCorner(t, fill) == InsertAt(Tied(fill, Arity(t)), AxisOf(t[1]), ValueOf(t[1]))

\* a and b are equal outputs: the same value, or values that compare ==
Same(a, b) == a = b \/ PEq(a, b)

IsFace(t) == IsFaceOf(t, 2) \/ IsFaceOf(t, 3) \/ IsFaceOf(t, 4)

\* C13: for every face of a parent of 2, 3 or 4 parameters whose all-0 and all-1
\* corners satisfy the invariant at x, f of the face equals the parent's h at the
\* corner with the fixed axis at its fixed value and the others at 0, g equals the
\* parent's h at that corner with the others at 1, and h of the face is the
\* parent's h with the face's parameters, in order, on the remaining axes.
C13_CornerRule ==
    (IsFace(hm) /\ CornersHold(hm[2], x, Arity(hm[2]))) =>
        /\ op = "f" => Same(y, H(hm[2], x, FaceCorner(hm, Zero)))
        /\ op = "g" => Same(y, H(hm[2], x, FaceCorner(hm, One)))
        /\ op = "h" =>
               y = H(hm[2], x, InsertAt(Coords(s[1], Arity(hm)), AxisOf(hm[1]),
                                        ValueOf(hm[1])))

C13_Witness ==
    /\ hm[1] = "Back" /\ hm[2] \in Impls4 /\ CornersHold(hm[2], x, 4)
    /\ op = "f" /\ y = <<Lit(2)>>

\* the parent's h with c put in as coordinate i and the parameters of the last
\* call, in order, as the other coordinates
ParentAt(i, c) == H(hm[2], x, InsertAt(Coords(s[1], Arity(hm)), i, c))

\* C14 as stated: at every parent arity, h of Top is the parent's h with 0 as the
\* last coordinate and h of Bottom with 1 as the last; h of Front and Back of a
\* 3-parameter parent is the parent's h with 0 and 1 as the middle coordinate; the
\* face's own parameters fill the other coordinates in order.
C14_LastAndMiddle ==
    /\ (IsFace(hm) /\ op = "h" /\ hm[1] \in {"Top", "Bottom"}) =>
           y = ParentAt(Arity(hm[2]), ValueOf(hm[1]))
    /\ (IsFaceOf(hm, 3) /\ op = "h" /\ hm[1] \in {"Front", "Back"}) =>
           y = ParentAt(2, ValueOf(hm[1]))

\* C14 amended: at every parent arity, h of Top is the parent's h with 0 as the
\* second coordinate and h of Bottom with 1 as the second; h of Front and Back is
\* the parent's h with 0 and 1 as the third coordinate; the face's own parameters
\* fill the other coordinates in order.
C14_SecondAndThird ==
    /\ (IsFace(hm) /\ op = "h" /\ hm[1] \in {"Top", "Bottom"}) =>
           y = ParentAt(2, ValueOf(hm[1]))
    /\ (IsFace(hm) /\ op = "h" /\ hm[1] \in {"Front", "Back"}) =>
           y = ParentAt(3, ValueOf(hm[1]))

C14_Witness ==
    /\ hm[1] = "Top" /\ hm[2] \in Impls4 /\ op = "h"
    /\ s = << <<One, Zero, One>> >> /\ y = <<Lit(9)>>

\* the last call was f on Left or Top of an n-parameter parent
LowerFaceF(n) == IsFaceOf(hm, n) /\ hm[1] \in {"Left", "Top"} /\ op = "f"

\* C15 as stated: f of Left and of Top of a 2-parameter parent is the parent's own
\* f, while f of Left and of Top of a 3-parameter parent is the parent's h at a
\* corner other than the origin.
C15_ArityDependentF ==
    /\ LowerFaceF(2) => y = F(hm[2], x)
    /\ LowerFaceF(3) => \E c \in Corners(3) \ {Origin(3)} : y = H(hm[2], x, c)

\* C15 amended: f of Left and of Top is the parent's own f on a 2-parameter and on
\* a 3-parameter parent alike; it is g that is the parent's h at a corner other than
\* the origin: [0, 1] and [1, 0] on two parameters, [0, 1, 1] and [1, 0, 1] on three.
C15_ForwardedF ==
    /\ (LowerFaceF(2) \/ LowerFaceF(3)) => y = F(hm[2], x)
    /\ (hm[1] \in {"Left", "Top"} /\ op = "g" /\ (IsFaceOf(hm, 2) \/ IsFaceOf(hm, 3))) =>
           y = H(hm[2], x, FaceCorner(hm, One))

C15_Witness ==
    /\ LowerFaceF(3) /\ hm[1] = "Top" /\ hm[2] \in Impls3
    /\ hm[2][3] = <<One>> /\ y = <<One>>
----------------------------------------------------------------------------
(* Properties of the cross-sections, under SpecSliced.                     *)

IsSection(t) == t[1] \in {"LeftRight", "TopBottom", "FrontBack", "PastFuture"}

\* the parameter of the parent of the cross-section t with the bound coordinate at
\* the supplied value and every other coordinate at fill
SectionCorner(t, fill) == InsertAt(Tied(fill, Arity(t)), AxisOf(t[1]), t[3])

\* f, g and h of a cross-section, by the last call
SectionBinds ==
    /\ op = "f" => y = H(hm[2], x, SectionCorner(hm, Zero))
    /\ op = "g" => y = H(hm[2], x, SectionCorner(hm, One))
    /\ op = "h" => y = ParentAt(AxisOf(hm[1]), hm[3])

\* the value of the homotopy t at each corner of its parameters equals itself
ReflexiveAt(t, v) ==
    IF Arity(t) = 1 THEN \A k \in {Zero, One} : PEq(H(t, v, k), H(t, v, k))
    ELSE ReflexiveCorners(t, v, Arity(t))

\* C16 as stated: f of a cross-section is the parent's h with the bound coordinate
\* at the supplied value and the others 0, g with the others 1, and h inserts the
\* supplied value at the bound coordinate; check returns true on every
\* cross-section of a 2-parameter parent and check2 on every cross-section of a
\* 3-parameter parent, whatever the supplied value.
C16_SectionsValid ==
    IsSection(hm) =>
        /\ SectionBinds
        /\ op = "check" => ok
        /\ op = "check2" => ok

\* C16 amended: the same, check and check2 returning true whenever the values of
\* the cross-section at the corners of its own parameters equal themselves (are
\* not NaN).
C16_SectionsValidReflexive ==
    IsSection(hm) =>
        /\ SectionBinds
        /\ (op = "check" /\ ReflexiveAt(hm, x)) => ok
        /\ (op = "check2" /\ ReflexiveAt(hm, x)) => ok

C16_Witness ==
    /\ hm = TopBottom(TestCube, Half) /\ op = "check2" /\ ok
    /\ ReflexiveAt(hm, x)
----------------------------------------------------------------------------
(* Properties of CubicBezier, under Spec.                                  *)

\* a * (1 - k) + b * k in f64
lerp(a, b, k) == Y_add(Y_mul(a, f64_sub(One, k)), Y_mul(b, k))

\* the blend of the two outer pairs
TwoPointBlend(a, b, c, d, k) == lerp(lerp(a, b, k), lerp(c, d, k), k)

\* the three-level construction of the standard cubic
DeCasteljau(a, b, c, d, k) ==
    lerp(lerp(lerp(a, b, k), lerp(b, c, k), k),
         lerp(lerp(b, c, k), lerp(c, d, k), k), k)

\* a cubic and a parameter inside (0, 1) where the two constructions differ
Bulge == CubicBezier(<<Zero>>, <<Lit(10)>>, <<Lit(10)>>, <<Zero>>)

\* C17: CubicBezier(a, b, c, d) has f = a and g = d, and its h at s is
\* lerp(lerp(a, b, s), lerp(c, d, s), s); at s = 0 and s = 1 that equals the
\* three-level de Casteljau value, and on (0.0, 10.0, 10.0, 0.0) at s = 0.5 it
\* does not.
C17_TwoPointBlend ==
    /\ Called("f", "CubicBezier") => y = hm[2]
    /\ Called("g", "CubicBezier") => y = hm[5]
    /\ Called("h", "CubicBezier") =>
        /\ y = TwoPointBlend(hm[2], hm[3], hm[4], hm[5], s[1])
        /\ s[1] \in {Zero, One} =>
               Same(y, DeCasteljau(hm[2], hm[3], hm[4], hm[5], s[1]))
        /\ (hm = Bulge /\ s[1] = Half) =>
               ~Same(y, DeCasteljau(hm[2], hm[3], hm[4], hm[5], s[1]))

C17_Witness ==
    /\ hm = Bulge /\ op = "h" /\ s = <<Half>> /\ y = <<Lit(5)>>
    /\ DeCasteljau(hm[2], hm[3], hm[4], hm[5], Half) = <<Lit(7) + Half>>
----------------------------------------------------------------------------
(* Properties of check2 and check3, under SpecChecked.                     *)

\* the table-given implementor t with NaN as its value off the table
OffTableNaN(t) == Impl(t[2], t[3], t[4], t[5], <<NaN>>)

\* C18: on a 2-parameter homotopy whose values at the corners equal themselves,
\* check2 returns true exactly when h at [0,0] == f and h at [1,1] == g, and on such
\* a 3-parameter homotopy check3 returns true exactly when h at [0,0,0] == f and h
\* at [1,1,1] == g; neither result depends on a value of h off the corners.
C18_CornersDecide ==
    /\ (op = "check2" /\ ReflexiveCorners(hm, x, 2)) => (ok <=> CornersHold(hm, x, 2))
    /\ (op = "check3" /\ ReflexiveCorners(hm, x, 3)) => (ok <=> CornersHold(hm, x, 3))
    /\ (op \in {"check2", "check3"} /\ hm[1] = "Impl") =>
           ok = Call(OffTableNaN(hm), x, <<op>>)

C18_Witness ==
    /\ op = "check3" /\ ok /\ hm \in Plain3
    /\ hm[5][<<Zero, One, Zero>>] = <<One>> /\ hm[5][<<One, Zero, One>>] = <<Zero>>
    /\ hm[5][<<Zero, Zero, One>>] = <<One>> /\ hm[5][<<One, One, Zero>>] = <<One>>

\* the face that fixes the axis of the cross-section t to the value t is cut at
BoundaryFace(t) ==
    CASE t[1] = "LeftRight" -> IF t[3] = Zero THEN Left(t[2]) ELSE Right(t[2])
      [] t[1] = "TopBottom" -> IF t[3] = Zero THEN Top(t[2]) ELSE Bottom(t[2])
      [] t[1] = "FrontBack" -> IF t[3] = Zero THEN Front(t[2]) ELSE Back(t[2])
      [] t[1] = "PastFuture" -> IF t[3] = Zero THEN Past(t[2]) ELSE Future(t[2])

\* C19: a cross-section at 0 has the h and the g of the 0-face of its axis, and a
\* cross-section at 1 the h and the f of the 1-face, for parents of 2, 3 and 4
\* parameters; f at 0 compares equal to the f of the face exactly when the parent's
\* h at the all-0 corner == its f, and g at 1 to the g of the face exactly when the
\* parent's h at the all-1 corner == its g.
C19_BoundarySections ==
    (IsSection(hm) /\ hm[3] \in {Zero, One}) =>
        /\ op = "h" => y = H(BoundaryFace(hm), x, s[1])
        /\ (op = "g" /\ hm[3] = Zero) => y = G(BoundaryFace(hm), x)
        /\ (op = "f" /\ hm[3] = One) => y = F(BoundaryFace(hm), x)
        /\ (op = "f" /\ hm[3] = Zero) =>
               (PEq(y, F(BoundaryFace(hm), x))
                    <=> PEq(H(hm[2], x, Origin(Arity(hm[2]))), F(hm[2], x)))
        /\ (op = "g" /\ hm[3] = One) =>
               (PEq(y, G(BoundaryFace(hm), x))
                    <=> PEq(H(hm[2], x, AllOnes(Arity(hm[2]))), G(hm[2], x)))

C19_Witness ==
    /\ hm[1] = "PastFuture" /\ hm[2] \in Impls4 /\ hm[3] = One
    /\ op = "f" /\ y = <<Lit(1)>> /\ y = F(Future(hm[2]), x)
====
